---- MODULE Spec2Model ----
(***************************************************************************)
(* A model of pyrit/score/scorer.py: the judge-call pipeline               *)
(* (Scorer.send_chat_target_async under the pyrit_json_retry decorator),   *)
(* the batch entry point (Scorer.score_prompts_batch_async over            *)
(* batch_task_async) and the pure helper Scorer.scale_value_float.         *)
(*                                                                         *)
(* Three specifications share the variables:                               *)
(*   Spec       one invocation of send_chat_target_async                   *)
(*   BatchSpec  one invocation of score_prompts_batch_async                *)
(*   ScaleSpec  applications of scale_value_float                          *)
(***************************************************************************)
EXTENDS Integers, Sequences, FiniteSets, TLC

VARIABLES
    \* ---- send_chat_target_async ----
    pc,             \* position of the invocation: idle, send, parse, validate, done
    scorer_type,    \* self.scorer_type
    category_arg,   \* the caller's category argument
    task,           \* the caller's task argument
    subject_valid,  \* whether validate accepts the subject being scored
    adopted,        \* history: an earlier attempt ended with a category other
                    \* than the caller's in its local variable
    category,       \* the local variable category of the running attempt
    attempts,       \* number of judge calls made by this invocation
    response_json,  \* converted_value of the response of the running attempt
    score,          \* the UnvalidatedScore built by the running attempt
    outcome,        \* what the invocation gave its caller
    all_invalid,    \* history: every judge call so far gave a response, and each
                    \* response was invalid JSON
    retried,        \* history: the message prefixes of the failures retried so far
    \* ---- score_prompts_batch_async ----
    b_pc,           \* idle, running, done
    n_prompts,      \* len(prompts)
    batch_size,     \* the batch_size argument
    chunk_start,    \* position of the first subject of the running chunk
    status,         \* per position: pending, inflight, ok, failed
    returned,       \* per position: the list score_async returned
    started,        \* per position: how many times score_async was called
    completion,     \* history: the positions in the order their calls finished
    responses,      \* batch_task_async's list of per-subject lists
    b_outcome,      \* what score_prompts_batch_async gave its caller
    \* ---- scale_value_float ----
    s_pc, s_value, s_min, s_max, s_result,
    \* ---- score_text_async, score_image_async ----
    e_pc,           \* idle, scoring, done
    e_entry,        \* which of the two was invoked: text, image
    e_arg,          \* the text or image_path argument
    e_task,         \* the task argument
    request_piece,  \* the local variable request_piece
    score_calls,    \* history: the calls of score_async, each its arguments
    e_result,       \* what score_async gave
    e_outcome       \* what the entry point gave its caller

sendVars  == <<pc, scorer_type, category_arg, task, subject_valid, adopted,
               category, attempts,
               response_json, score, outcome, all_invalid, retried>>
batchVars == <<b_pc, n_prompts, batch_size, chunk_start, status, returned,
               started, completion, responses, b_outcome>>
scaleVars == <<s_pc, s_value, s_min, s_max, s_result>>
entryVars == <<e_pc, e_entry, e_arg, e_task, request_piece, score_calls,
               e_result, e_outcome>>
vars      == <<sendVars, batchVars, scaleVars, entryVars>>

(***************************************************************************)
(* Bounds of the model.                                                    *)
(***************************************************************************)
\* the retry budget of pyrit_json_retry (RETRY_MAX_NUM_ATTEMPTS, configured)
MaxAttempts == 3
\* longest prompts sequence handed to score_prompts_batch_async
MaxPrompts == 4
\* largest batch_size handed to score_prompts_batch_async
MaxBatchSize == 3
\* longest list one score_async call returns
MaxScores == 2
\* value, min_value and max_value range over -MaxAbs..MaxAbs
MaxAbs == 2

(***************************************************************************)
(* Python values.  Every value is a record [t, v]: t the Python type, v    *)
(* its text.  Missing marks a key that a JSON object does not have.        *)
(***************************************************************************)
PyNone    == [t |-> "NoneType", v |-> "None"]
PyStr(s)  == [t |-> "str", v |-> s]
PyFloat(s) == [t |-> "float", v |-> s]
PyTrue    == [t |-> "bool", v |-> "True"]
Missing   == [t |-> "missing", v |-> ""]

\* bool(x) of a Python value: None, "" are falsy
Truthy(x) == /\ x.t # "NoneType"
             /\ x.t # "missing"
             /\ ~(x.t = "str" /\ x.v = "")

\* str(x): the text of a str, the repr of a float, "True", "None"
str(x) == x.v

(***************************************************************************)
(* Judge responses.  A response text is a record: form says what kind of   *)
(* text it is, and for a JSON object the five keys the scorer reads hold   *)
(* a JSON value or JAbsent (the object has no such key).                   *)
(***************************************************************************)
JAbsent      == [j |-> "absent", text |-> ""]
JString(s)   == [j |-> "string", text |-> s]
JNumber(s)   == [j |-> "number", text |-> s]
JTrue        == [j |-> "true", text |-> "true"]
JNull        == [j |-> "null", text |-> "null"]

Keys == {"category", "score_value", "rationale", "description", "metadata"}
NoItems == [k \in Keys |-> Missing]

\* texts json.loads rejects with JSONDecodeError (prose, a truncated object)
InvalidForms   == {"prose", "truncated"}
\* texts json.loads reads as something other than a dict: a JSON array, null,
\* and the bare constant NaN, which is no JSON but which Python's decoder
\* accepts as a float
NonObjectForms == {"array", "null", "NaN"}

CategoryValues    == {JAbsent, JString(""), JString("other")}
ScoreValueValues  == {JAbsent, JTrue, JNumber("0.8"), JString("0.8"),
                      JString("high"), JString("nan"), JString("true")}
RationaleValues   == {JAbsent, JNull, JString(""), JString("because")}
\* the optional keys description and metadata: both absent, or both present
OptionalValues    == {<<JAbsent, JAbsent>>, <<JString("desc"), JString("meta")>>}

ObjectTexts ==
    { [form |-> "object", category |-> c, score_value |-> sv, rationale |-> r,
       description |-> o[1], metadata |-> o[2]] :
        c \in CategoryValues, sv \in ScoreValueValues, r \in RationaleValues,
        o \in OptionalValues }

OtherTexts ==
    { [form |-> f, category |-> JAbsent, score_value |-> JAbsent,
       rationale |-> JAbsent, description |-> JAbsent, metadata |-> JAbsent] :
        f \in InvalidForms \cup NonObjectForms }

ResponseTexts == ObjectTexts \cup OtherTexts
NoText == [form |-> "none", category |-> JAbsent, score_value |-> JAbsent,
           rationale |-> JAbsent, description |-> JAbsent, metadata |-> JAbsent]

\* the Python value json.loads makes of a JSON value
FromJson(jv) ==
    CASE jv.j = "string" -> PyStr(jv.text)
      [] jv.j = "number" -> PyFloat(jv.text)
      [] jv.j = "true"   -> PyTrue
      [] jv.j = "null"   -> PyNone
      [] OTHER           -> Missing

\* json.loads(text): JSONDecodeError, a dict, or another Python object
json_loads(text) ==
    IF text.form \in InvalidForms
    THEN [err |-> "JSONDecodeError", type |-> "none", items |-> NoItems]
    ELSE IF text.form = "object"
    THEN [err |-> "none", type |-> "dict",
          items |-> [k \in Keys |-> FromJson(text[k])]]
    ELSE [err |-> "none", type |-> text.form, items |-> NoItems]

\* dict.get(key): None when the key is missing
Get(d, k) == IF d.items[k] = Missing THEN PyNone ELSE d.items[k]
\* dict[key] raises KeyError when the key is missing
HasKey(d, k) == d.items[k] # Missing

\* float(s) succeeds: Python reads decimal literals and also nan, inf, infinity;
\* of the raw values of the model it rejects "high", "true", "True" and "None"
FloatLiterals == {"0.8", "nan"}
FloatParses(s) == s \in FloatLiterals

ScorerTypes == {"float_scale", "true_false"}
CategoryArgs == {PyNone, PyStr(""), PyStr("harm")}
TaskArgs == {PyNone, PyStr("objective")}
ScoredPromptId == "prompt-1"

(***************************************************************************)
(* Exceptions and scores.                                                  *)
(***************************************************************************)
NoExc == [type |-> "none", prefix |-> "", response_json |-> NoText,
          raw_score_value |-> ""]

\* line 170: raise ValueError("Category is present in the response and an argument")
AmbiguousAsInvalidJson ==
    [type |-> "InvalidJsonException",
     prefix |-> "Category is present in the response and an argument",
     response_json |-> NoText, raw_score_value |-> ""]
AmbiguousCategoryError ==
    [type |-> "ValueError",
     prefix |-> "Category is present in the response and an argument",
     response_json |-> NoText, raw_score_value |-> ""]

\* lines 186-187: except json.JSONDecodeError: raise InvalidJsonException(...)
DecodeErrorWithoutText(text) ==
    [type |-> "InvalidJsonException", prefix |-> "Invalid JSON response: ",
     response_json |-> NoText, raw_score_value |-> ""]
DecodeError(text) ==
    [type |-> "InvalidJsonException", prefix |-> "Invalid JSON response: ",
     response_json |-> text, raw_score_value |-> ""]

\* lines 189-190: except KeyError: raise InvalidJsonException(...)
KeyErrorUncaught(text) ==
    [type |-> "KeyError", prefix |-> "", response_json |-> NoText,
     raw_score_value |-> ""]
MissingKeyError(text) ==
    [type |-> "InvalidJsonException",
     prefix |-> "Invalid JSON response, missing Key: ",
     response_json |-> text, raw_score_value |-> ""]

\* line 167 on a parsed document that is no dict: it has no attribute get
AttributeError ==
    [type |-> "AttributeError", prefix |-> "object has no attribute 'get'",
     response_json |-> NoText, raw_score_value |-> ""]

\* lines 197-199
NotAFloatError(raw) ==
    [type |-> "InvalidJsonException",
     prefix |-> "Invalid JSON response, score_value should be a float not this: ",
     response_json |-> NoText, raw_score_value |-> raw]

\* line 161: what send_prompt_async raises (a timeout, a lost connection)
\* leaves send_chat_target_async as it is: the call lies outside the try blocks
TransportErrors == {"TimeoutError", "ConnectionError"}
TransportAsInvalidJson(e) ==
    [type |-> "InvalidJsonException", prefix |-> "judge call failed",
     response_json |-> NoText, raw_score_value |-> ""]
TransportError(e) ==
    [type |-> e, prefix |-> "judge call failed",
     response_json |-> NoText, raw_score_value |-> ""]

\* the concrete scorer class of the instance
ScorerClass == [name |-> "SelfAskScorer", module |-> "pyrit.score.self_ask_scorer"]

\* lines 124-135
get_identifier_of_instance ==
    [type |-> ScorerClass.name, module |-> ScorerClass.module,
     sub_identifier |-> IF attempts = 0 THEN PyNone ELSE PyStr("used")]
get_identifier ==
    [type |-> ScorerClass.name, module |-> ScorerClass.module,
     sub_identifier |-> PyNone]

NoScore == [raw_score_value |-> "", score_value_description |-> PyNone,
            score_type |-> "none", score_category |-> PyNone,
            score_rationale |-> PyNone, scorer_class_identifier |-> get_identifier,
            score_metadata |-> PyNone, prompt_request_response_id |-> "",
            task |-> PyNone]

\* line 175: raw_score_value=str(parsed_response["score_value"])
RawFromDescription(parsed) == str(Get(parsed, "description"))
RawScoreValue(parsed) == str(parsed.items["score_value"])

\* line 179: score_rationale=parsed_response["rationale"]
RationaleOrPlaceholder(parsed) ==
    IF Truthy(parsed.items["rationale"])
    THEN parsed.items["rationale"] ELSE PyStr("no rationale")
Rationale(parsed) == parsed.items["rationale"]

\* lines 174-184: the UnvalidatedScore of a dict that has both required keys
BuildScore(parsed, cat, stype, tsk) ==
    [raw_score_value |-> RawScoreValue(parsed),
     score_value_description |-> Get(parsed, "description"),
     score_type |-> stype,
     score_category |-> cat,
     score_rationale |-> Rationale(parsed),
     scorer_class_identifier |-> get_identifier,
     score_metadata |-> Get(parsed, "metadata"),
     prompt_request_response_id |-> ScoredPromptId,
     task |-> tsk]

\* line 172: category = category_response if category_response else category
KeepCallerCategory(category_response, cat) == cat
ResolveCategory(category_response, cat) ==
    IF Truthy(category_response) THEN category_response ELSE cat

\* lines 163-190: the first try block, on the response text and the value
\* the local variable category holds on entry
ParseResponse(text, cat, stype, tsk) ==
    LET parsed == json_loads(text)
        category_response == Get(parsed, "category")
        new_cat == ResolveCategory(category_response, cat)
    IN  IF parsed.err = "JSONDecodeError"
        THEN [exc |-> DecodeError(text), category |-> cat, score |-> NoScore]
        ELSE IF parsed.type # "dict"
        THEN [exc |-> AttributeError, category |-> cat, score |-> NoScore]
        ELSE IF Truthy(category_response) /\ Truthy(cat)
        THEN [exc |-> AmbiguousCategoryError, category |-> cat, score |-> NoScore]
        ELSE IF ~HasKey(parsed, "score_value") \/ ~HasKey(parsed, "rationale")
        THEN [exc |-> MissingKeyError(text), category |-> new_cat, score |-> NoScore]
        ELSE [exc |-> NoExc, category |-> new_cat,
              score |-> BuildScore(parsed, new_cat, stype, tsk)]

\* line 193: the domain check applies to float_scale scorers only
ChecksEveryType(stype) == TRUE
NeedsFloatCheck(stype) == stype = "float_scale"

\* line 195: float(score.raw_score_value) raises ValueError
FloatNeverFails(raw) == FALSE
FloatRaises(raw) == ~FloatParses(raw)

\* lines 192-199: the second try block
DomainCheck(stype, sc) ==
    IF NeedsFloatCheck(stype) /\ FloatRaises(sc.raw_score_value)
    THEN NotAFloatError(sc.raw_score_value)
    ELSE NoExc

(***************************************************************************)
(* pyrit_json_retry (pyrit/exceptions/exception_classes.py): the policy    *)
(* that wraps send_chat_target_async.  An InvalidJsonException is retried  *)
(* while attempts remain; on exhaustion the last one is raised to the      *)
(* caller; any other exception propagates at once.                         *)
(***************************************************************************)
Recoverable(exc) == exc.type = "InvalidJsonException"
RetryAgain(exc, n) == Recoverable(exc) /\ n < MaxAttempts

NoOutcome == [kind |-> "none", exc |-> NoExc, score |-> NoScore, at |-> 0]

\* the wrapped call raised exc on attempt number n
RaiseAt(exc, n) ==
    IF RetryAgain(exc, n)
    THEN /\ pc' = "send"
         /\ outcome' = outcome
         /\ retried' = retried \cup {exc.prefix}
    ELSE /\ pc' = "done"
         /\ outcome' = [kind |-> "raised", exc |-> exc, score |-> NoScore,
                        at |-> n]
         /\ retried' = retried

\* the wrapped call raised exc on the running attempt
Raise(exc) == RaiseAt(exc, attempts)

(***************************************************************************)
(* Actions of one send_chat_target_async invocation.                       *)
(***************************************************************************)
\* lines 38-48: what validate raises for a subject it rejects
ValidationError ==
    [type |-> "ValidationError", prefix |-> "subject rejected",
     response_json |-> NoText, raw_score_value |-> ""]

\* line 144: each call of the wrapped function binds category to the
\* caller's argument, whatever the previous attempt left in its own
CategoryOfLastAttempt(arg, previous) ==
    IF Truthy(previous) THEN previous ELSE arg
EntryCategory(arg, previous) == arg

\* lines 138-161: between entry and the judge call nothing is checked
ProceedsOnlyIfValid(valid) == valid
ProceedsToSend(valid) == TRUE

SendInit(types) ==
    /\ pc = "idle"
    /\ scorer_type \in types
    /\ category_arg = PyNone
    /\ task = PyNone
    /\ subject_valid = TRUE
    /\ adopted = FALSE
    /\ category = PyNone
    /\ attempts = 0
    /\ response_json = NoText
    /\ score = NoScore
    /\ outcome = NoOutcome
    /\ all_invalid = TRUE
    /\ retried = {}

\* the caller invokes send_chat_target_async(category=c, task=t)
\* for the subject named by scored_prompt_id, of which valid tells whether
\* validate accepts it
Call(c, t, valid) ==
    /\ pc = "idle"
    /\ category_arg' = c
    /\ task' = t
    /\ subject_valid' = valid
    /\ IF ProceedsToSend(valid)
       THEN pc' = "send" /\ UNCHANGED <<outcome, retried>>
       ELSE RaiseAt(ValidationError, 0)
    /\ UNCHANGED <<scorer_type, adopted, category, attempts, response_json,
                   score, all_invalid>>
    /\ UNCHANGED <<batchVars, scaleVars, entryVars>>

\* line 161: one attempt starts, with category bound to the caller's
\* argument, and the judge answers with text r
SendPrompt(r) ==
    /\ pc = "send"
    /\ attempts' = attempts + 1
    /\ category' = EntryCategory(category_arg, category)
    /\ adopted' = (adopted \/ (attempts >= 1 /\ category # category_arg))
    /\ response_json' = r
    /\ score' = NoScore
    /\ all_invalid' = (all_invalid /\ r.form \in InvalidForms)
    /\ pc' = "parse"
    /\ UNCHANGED <<scorer_type, category_arg, task, subject_valid, outcome,
                   retried>>
    /\ UNCHANGED <<batchVars, scaleVars, entryVars>>

\* line 161: one attempt starts and the judge call raises e: no response
SendFails(e) ==
    /\ pc = "send"
    /\ attempts' = attempts + 1
    /\ category' = EntryCategory(category_arg, category)
    /\ adopted' = (adopted \/ (attempts >= 1 /\ category # category_arg))
    /\ response_json' = NoText
    /\ score' = NoScore
    /\ all_invalid' = FALSE
    /\ RaiseAt(TransportError(e), attempts + 1)
    /\ UNCHANGED <<scorer_type, category_arg, task, subject_valid>>
    /\ UNCHANGED <<batchVars, scaleVars, entryVars>>

\* lines 163-190
ParseStep ==
    /\ pc = "parse"
    /\ LET res == ParseResponse(response_json, category, scorer_type, task)
       IN  /\ category' = res.category
           /\ score' = res.score
           /\ IF res.exc = NoExc
              THEN pc' = "validate" /\ outcome' = outcome /\ retried' = retried
              ELSE Raise(res.exc)
    /\ UNCHANGED <<scorer_type, category_arg, task, subject_valid, adopted,
                   attempts, response_json,
                   all_invalid>>
    /\ UNCHANGED <<batchVars, scaleVars, entryVars>>

\* lines 192-201
ValidateStep ==
    /\ pc = "validate"
    /\ LET exc == DomainCheck(scorer_type, score)
       IN  IF exc = NoExc
           THEN /\ pc' = "done"
                /\ outcome' = [kind |-> "returned", exc |-> NoExc, score |-> score,
                               at |-> attempts]
                /\ retried' = retried
           ELSE Raise(exc)
    /\ UNCHANGED <<scorer_type, category_arg, task, subject_valid, adopted,
                   category, attempts,
                   response_json, score, all_invalid>>
    /\ UNCHANGED <<batchVars, scaleVars, entryVars>>

(***************************************************************************)
(* score_prompts_batch_async.  Subjects are the positions 1..n_prompts of  *)
(* the prompts sequence; a Score is tagged with the position it was made   *)
(* for and its index in the list score_async returned.                     *)
(***************************************************************************)
Positions == 1..n_prompts
ScoreList(i, k) == [x \in 1..k |-> [pos |-> i, idx |-> x]]

\* line 77: batch_size=batch_size
BatchSizePlusOne(bs) == bs + 1
BatchSizeArg(bs) == bs

RECURSIVE FlattenReversed(_)
FlattenReversed(results) ==
    IF results = <<>> THEN <<>>
    ELSE FlattenReversed(Tail(results)) \o Head(results)

\* line 82: [score for sublist in results for score in sublist]
RECURSIVE Flatten(_)
Flatten(results) ==
    IF results = <<>> THEN <<>>
    ELSE Head(results) \o Flatten(Tail(results))

NoBatchOutcome == [kind |-> "none", scores |-> <<>>, failures |-> {}, first |-> 0]

\* lines 73-82: what the caller gets when batch_task_async raised, with the
\* failed positions attached: nothing catches it
SwallowFailure(failure, collected) ==
    [kind |-> "returned", scores |-> Flatten(collected), failures |-> {},
     first |-> 0]
PropagateFailure(failure, collected) ==
    [kind |-> "raised", scores |-> <<>>, failures |-> failure.failures,
     first |-> failure.first]

\* lines 73-82: what the caller gets when batch_task_async returned results
ReturnFlattened(results) ==
    [kind |-> "returned", scores |-> Flatten(results), failures |-> {},
     first |-> 0]

(***************************************************************************)
(* batch_task_async (pyrit/common/batch_helper.py): the Batch Executor.    *)
(* Subjects are dispatched in input order in chunks of batch_size; the     *)
(* calls of a chunk run concurrently and finish in any order; a failed     *)
(* call does not cancel its siblings; when the chunk's results are         *)
(* collected, failures are raised with their positions, and otherwise the  *)
(* chunk's results are appended in input order.                            *)
(***************************************************************************)
Chunk == { i \in Positions :
             /\ chunk_start <= i
             /\ i < chunk_start + BatchSizeArg(batch_size) }
InFlight == { i \in Positions : status[i] = "inflight" }
Failed == { i \in Positions : status[i] = "failed" }

BatchInit ==
    /\ b_pc = "idle"
    /\ n_prompts = 0
    /\ batch_size = 1
    /\ chunk_start = 1
    /\ status = <<>>
    /\ returned = <<>>
    /\ started = <<>>
    /\ completion = <<>>
    /\ responses = <<>>
    /\ b_outcome = NoBatchOutcome

\* the caller invokes score_prompts_batch_async(prompts, batch_size) with
\* len(prompts) = n; with no prompts the executor returns [] at once
BatchCall(n, bs) ==
    /\ b_pc = "idle"
    /\ n_prompts' = n
    /\ batch_size' = bs
    /\ chunk_start' = 1
    /\ status' = [i \in 1..n |-> "pending"]
    /\ returned' = [i \in 1..n |-> <<>>]
    /\ started' = [i \in 1..n |-> 0]
    /\ IF n = 0
       THEN b_pc' = "done" /\ b_outcome' = ReturnFlattened(<<>>)
       ELSE b_pc' = "running" /\ b_outcome' = b_outcome
    /\ UNCHANGED <<completion, responses>>
    /\ UNCHANGED <<sendVars, scaleVars, entryVars>>

\* the executor calls score_async for the next subject of the chunk
Start(i) ==
    /\ b_pc = "running"
    /\ i \in Chunk
    /\ status[i] = "pending"
    /\ \A j \in Chunk : j < i => status[j] # "pending"
    /\ status' = [status EXCEPT ![i] = "inflight"]
    /\ started' = [started EXCEPT ![i] = @ + 1]
    /\ UNCHANGED <<b_pc, n_prompts, batch_size, chunk_start, returned,
                   completion, responses, b_outcome>>
    /\ UNCHANGED <<sendVars, scaleVars, entryVars>>

\* a score_async call returns a list of k scores
Complete(i, k) ==
    /\ b_pc = "running"
    /\ i \in Positions
    /\ status[i] = "inflight"
    /\ status' = [status EXCEPT ![i] = "ok"]
    /\ returned' = [returned EXCEPT ![i] = ScoreList(i, k)]
    /\ completion' = Append(completion, i)
    /\ UNCHANGED <<b_pc, n_prompts, batch_size, chunk_start, started,
                   responses, b_outcome>>
    /\ UNCHANGED <<sendVars, scaleVars, entryVars>>

\* a score_async call raises
Fail(i) ==
    /\ b_pc = "running"
    /\ i \in Positions
    /\ status[i] = "inflight"
    /\ status' = [status EXCEPT ![i] = "failed"]
    /\ completion' = Append(completion, i)
    /\ UNCHANGED <<b_pc, n_prompts, batch_size, chunk_start, returned, started,
                   responses, b_outcome>>
    /\ UNCHANGED <<sendVars, scaleVars, entryVars>>

\* the results of the chunk in input order
RECURSIVE ChunkResults(_, _)
ChunkResults(from, to) ==
    IF from > to THEN <<>>
    ELSE <<returned[from]>> \o ChunkResults(from + 1, to)

\* the failure the executor raises for a chunk with failed calls: the first
\* one to have failed, with the positions of all that failed
BatchItemFailure(failed) ==
    [failures |-> failed,
     first |-> completion[CHOOSE a \in 1..Len(completion) :
                   /\ completion[a] \in failed
                   /\ \A b \in 1..(a - 1) : completion[b] \notin failed]]

\* every call of the chunk has finished: the executor collects the results,
\* then raises, goes on to the next chunk, or returns to
\* score_prompts_batch_async, which flattens (line 82)
Collect ==
    /\ b_pc = "running"
    /\ Chunk # {}
    /\ \A i \in Chunk : status[i] \in {"ok", "failed"}
    /\ LET last == chunk_start + Cardinality(Chunk) - 1
           collected == responses \o ChunkResults(chunk_start, last)
       IN  IF Chunk \cap Failed # {}
           THEN /\ b_pc' = "done"
                /\ b_outcome' = PropagateFailure(BatchItemFailure(Chunk \cap Failed),
                                                 responses)
                /\ UNCHANGED <<responses, chunk_start>>
           ELSE /\ responses' = collected
                /\ chunk_start' = last + 1
                /\ IF last = n_prompts
                   THEN b_pc' = "done" /\ b_outcome' = ReturnFlattened(collected)
                   ELSE b_pc' = "running" /\ b_outcome' = b_outcome
    /\ UNCHANGED <<n_prompts, batch_size, status, returned, started, completion>>
    /\ UNCHANGED <<sendVars, scaleVars, entryVars>>

(***************************************************************************)
(* scale_value_float.  Arguments are integers in -MaxAbs..MaxAbs and the   *)
(* result is the exact quotient, a fraction in lowest terms with a         *)
(* positive denominator.                                                   *)
(***************************************************************************)
Abs(x) == IF x < 0 THEN -x ELSE x

RECURSIVE GCD(_, _)
GCD(a, b) == IF b = 0 THEN a ELSE GCD(b, a % b)

\* the quotient n / d, d # 0
Quot(n, d) ==
    LET g == GCD(Abs(n), Abs(d))
        sgn == IF d < 0 THEN -1 ELSE 1
    IN  [num |-> (sgn * n) \div g, den |-> (sgn * d) \div g]

Zero == [num |-> 0, den |-> 1]

\* a rescale that clamps its result into [0, 1]
scale_value_float_clamped(value, min_value, max_value) ==
    IF max_value = min_value THEN Zero
    ELSE LET q == Quot(value - min_value, max_value - min_value)
         IN  IF q.num < 0 THEN Zero
             ELSE IF q.num > q.den THEN [num |-> 1, den |-> 1]
             ELSE q

\* lines 106-122
scale_value_float(value, min_value, max_value) ==
    IF max_value = min_value THEN Zero
    ELSE Quot(value - min_value, max_value - min_value)

ScaleInit ==
    /\ s_pc = "idle"
    /\ s_value = 0
    /\ s_min = 0
    /\ s_max = 0
    /\ s_result = Zero

ScaleCall(v, lo, hi) ==
    /\ s_pc = "idle"
    /\ s_pc' = "done"
    /\ s_value' = v
    /\ s_min' = lo
    /\ s_max' = hi
    /\ s_result' = scale_value_float(v, lo, hi)
    /\ UNCHANGED <<sendVars, batchVars, entryVars>>

(***************************************************************************)
(* score_text_async and score_image_async.                                 *)
(***************************************************************************)
EntryArgs == {"", "hello", "a.png", "b.png"}
EntryTasks == TaskArgs \cup {PyStr("another objective")}

\* PromptRequestPiece(...) (pyrit/models): the subject holds what it was
\* given, the data types default to text, and it is given an identity
PromptRequestPiece(role, original_value, converted_value, original_type, converted_type) ==
    [id |-> PyStr("generated-uuid"),
     role |-> role,
     original_value |-> original_value,
     converted_value |-> converted_value,
     original_value_data_type |->
         IF original_type = PyNone THEN PyStr("text") ELSE original_type,
     converted_value_data_type |->
         IF converted_type = PyNone THEN PyStr("text") ELSE converted_type]

NoPiece == [id |-> PyNone, role |-> "", original_value |-> PyNone,
            converted_value |-> PyNone, original_value_data_type |-> PyNone,
            converted_value_data_type |-> PyNone]

\* lines 61-64
TextPiece(text) ==
    PromptRequestPiece("user", PyStr(text), PyNone, PyNone, PyNone)

\* lines 95-101
ImagePiece(image_path) ==
    PromptRequestPiece("user", PyStr(image_path), PyStr(image_path),
                       PyStr("image_path"), PyStr("image_path"))

\* lines 66 and 103: request_piece.id = None
KeepId(piece) == piece
ClearId(piece) == [piece EXCEPT !.id = PyNone]

\* lines 67 and 104: task=task
TaskArgument(tsk) == tsk

\* lines 67 and 104: return await self.score_async(...)
EntryReturn(res) == res

NoEntryResult == [kind |-> "none", scores |-> <<>>]

EntryInit ==
    /\ e_pc = "idle"
    /\ e_entry = "none"
    /\ e_arg = ""
    /\ e_task = PyNone
    /\ request_piece = NoPiece
    /\ score_calls = <<>>
    /\ e_result = NoEntryResult
    /\ e_outcome = NoEntryResult

\* the subject is built, its id is cleared and score_async is called with it
Delegate(piece, tsk) ==
    /\ request_piece' = ClearId(piece)
    /\ score_calls' = Append(score_calls,
                             [request_response |-> ClearId(piece),
                              task |-> TaskArgument(tsk)])
    /\ e_pc' = "scoring"
    /\ UNCHANGED <<e_result, e_outcome>>
    /\ UNCHANGED <<sendVars, batchVars, scaleVars>>

\* lines 50-67, up to the await
score_text_async(text, tsk) ==
    /\ e_pc = "idle"
    /\ e_entry' = "text"
    /\ e_arg' = text
    /\ e_task' = tsk
    /\ Delegate(TextPiece(text), tsk)

\* lines 84-104, up to the await
score_image_async(image_path, tsk) ==
    /\ e_pc = "idle"
    /\ e_entry' = "image"
    /\ e_arg' = image_path
    /\ e_task' = tsk
    /\ Delegate(ImagePiece(image_path), tsk)

\* score_async returns a list of k scores, which the entry point returns
ScoreAsyncReturns(k) ==
    /\ e_pc = "scoring"
    /\ e_pc' = "done"
    /\ e_result' = [kind |-> "returned", scores |-> ScoreList(1, k)]
    /\ e_outcome' = EntryReturn(e_result')
    /\ UNCHANGED <<e_entry, e_arg, e_task, request_piece, score_calls>>
    /\ UNCHANGED <<sendVars, batchVars, scaleVars>>

\* score_async raises, and the entry point with it
ScoreAsyncRaises ==
    /\ e_pc = "scoring"
    /\ e_pc' = "done"
    /\ e_result' = [kind |-> "raised", scores |-> <<>>]
    /\ e_outcome' = EntryReturn(e_result')
    /\ UNCHANGED <<e_entry, e_arg, e_task, request_piece, score_calls>>
    /\ UNCHANGED <<sendVars, batchVars, scaleVars>>

(***************************************************************************)
(* Specifications.                                                         *)
(***************************************************************************)
Init == SendInit(ScorerTypes) /\ BatchInit /\ ScaleInit /\ EntryInit
Next ==
    \/ \E c \in CategoryArgs, t \in TaskArgs, valid \in BOOLEAN :
          Call(c, t, valid)
    \/ \E r \in ResponseTexts : SendPrompt(r)
    \/ \E e \in TransportErrors : SendFails(e)
    \/ ParseStep
    \/ ValidateStep
Spec == Init /\ [][Next]_vars

BatchSpecInit == SendInit({"float_scale"}) /\ BatchInit /\ ScaleInit /\ EntryInit
BatchSpecNext ==
    \/ \E n \in 0..MaxPrompts, bs \in 1..MaxBatchSize : BatchCall(n, bs)
    \/ \E i \in Positions : Start(i)
    \/ \E i \in Positions, k \in 0..MaxScores : Complete(i, k)
    \/ \E i \in Positions : Fail(i)
    \/ Collect
BatchSpec == BatchSpecInit /\ [][BatchSpecNext]_vars

ScaleSpecInit == SendInit({"float_scale"}) /\ BatchInit /\ ScaleInit /\ EntryInit
ScaleSpecNext ==
    \E v \in -MaxAbs..MaxAbs, lo \in -MaxAbs..MaxAbs, hi \in -MaxAbs..MaxAbs :
        ScaleCall(v, lo, hi)
ScaleSpec == ScaleSpecInit /\ [][ScaleSpecNext]_vars

EntrySpecInit == SendInit({"float_scale"}) /\ BatchInit /\ ScaleInit /\ EntryInit
EntrySpecNext ==
    \/ \E text \in EntryArgs, t \in EntryTasks : score_text_async(text, t)
    \/ \E path \in EntryArgs, t \in EntryTasks : score_image_async(path, t)
    \/ \E k \in 0..MaxScores : ScoreAsyncReturns(k)
    \/ ScoreAsyncRaises
EntrySpec == EntrySpecInit /\ [][EntrySpecNext]_vars

(***************************************************************************)
(* Properties of send_chat_target_async (specification Spec).              *)
(***************************************************************************)
\* the running or last attempt has got its response and finished parsing
\* and checking it
AttemptOver == attempts >= 1 /\ pc \in {"send", "done"}
\* the response of the running or last attempt and its fields as Python values
IsObject == response_json.form = "object"
ResponseCategory == FromJson(response_json.category)
ResponseScoreValue == FromJson(response_json.score_value)
ResponseRationale == FromJson(response_json.rationale)
\* both the caller and the response give a (non-empty) category
Ambiguous == IsObject /\ Truthy(category_arg) /\ Truthy(ResponseCategory)
HasRequiredKeys == /\ IsObject
                   /\ response_json.score_value # JAbsent
                   /\ response_json.rationale # JAbsent
\* the attempt ended in a recoverable failure: another attempt follows while
\* attempts remain, and the last failure is raised when none does
RetriedOrExhausted(prefix) ==
    /\ attempts < MaxAttempts =>
          /\ pc = "send"
          /\ outcome = NoOutcome
          /\ prefix \in retried
    /\ attempts >= MaxAttempts =>
          /\ pc = "done"
          /\ outcome.kind = "raised"
          /\ outcome.exc.type = "InvalidJsonException"
          /\ outcome.exc.prefix = prefix
          /\ outcome.at = MaxAttempts

\* C1: when every response of the judge is syntactically invalid JSON (a
\* text json.loads rejects), the invocation makes exactly MaxAttempts judge
\* calls, never more, and then raises InvalidJsonException with the text of
\* the last response in its message; it never returns a score.
C1_InvalidJsonExhaustsRetries ==
    (all_invalid /\ attempts >= 1) =>
        /\ attempts <= MaxAttempts
        /\ pc \in {"send", "parse", "done"}
        /\ pc = "send" => attempts < MaxAttempts /\ outcome = NoOutcome
        /\ pc = "done" =>
              /\ attempts = MaxAttempts
              /\ outcome.kind = "raised"
              /\ outcome.at = MaxAttempts
              /\ outcome.exc.type = "InvalidJsonException"
              /\ outcome.exc.response_json = response_json

C1_Witness ==
    /\ pc = "done"
    /\ all_invalid
    /\ attempts = MaxAttempts
    /\ outcome.kind = "raised"
    /\ outcome.exc.response_json.form = "truncated"

\* C2: when the caller passed a (non-empty) category and the response holds a
\* (non-empty) category, the attempt that got this response ends the
\* invocation with the ValueError of line 170, whatever else the response
\* holds: no further attempt is made.
C2_AmbiguousCategoryIsFatal ==
    (AttemptOver /\ Ambiguous) =>
        /\ pc = "done"
        /\ outcome.kind = "raised"
        /\ outcome.exc.type = "ValueError"
        /\ outcome.at = attempts

C2_Witness ==
    /\ pc = "done"
    /\ Ambiguous
    /\ outcome.exc.type = "ValueError"
    /\ attempts = 1
    /\ response_json.score_value = JAbsent

\* C5: a JSON object without score_value or without rationale, with no
\* ambiguous category, is a recoverable InvalidJsonException ("missing Key")
\* carrying the response text: retried while attempts remain; and an
\* invocation whose last response is well formed returns a score, whatever
\* failed before.
C5_MissingKeyIsRecoverable ==
    /\ (AttemptOver /\ IsObject /\ ~HasRequiredKeys /\ ~Ambiguous) =>
          /\ RetriedOrExhausted("Invalid JSON response, missing Key: ")
          /\ pc = "done" => outcome.exc.response_json = response_json
    /\ (pc = "done" /\ HasRequiredKeys /\ ~Ambiguous
          /\ FloatParses(str(ResponseScoreValue))) =>
          outcome.kind = "returned"

C5_Witness ==
    /\ pc = "done"
    /\ outcome.kind = "returned"
    /\ retried = {"Invalid JSON response, missing Key: "}
    /\ outcome.at = 2

\* the raw values float() reads as a finite number
IsFinite(raw) == raw \in {"0.8"}

\* C6 as stated: a float_scale scorer returns a score only if its raw value
\* is a finite real number.
C6_ReturnsOnlyFiniteFloats ==
    (outcome.kind = "returned" /\ scorer_type = "float_scale") =>
        IsFinite(outcome.score.raw_score_value)

\* C6 as amended: a float_scale scorer returns a score only if float()
\* accepts its raw value, which it does for nan; a score_value float()
\* rejects is a recoverable InvalidJsonException ("should be a float")
\* carrying the raw value, retried while attempts remain.
C6_ReturnsOnlyParsableFloats ==
    /\ (outcome.kind = "returned" /\ scorer_type = "float_scale") =>
          FloatParses(outcome.score.raw_score_value)
    /\ (AttemptOver /\ scorer_type = "float_scale" /\ HasRequiredKeys
          /\ ~Ambiguous /\ ~FloatParses(str(ResponseScoreValue))) =>
          /\ RetriedOrExhausted(
                "Invalid JSON response, score_value should be a float not this: ")
          /\ pc = "done" =>
                outcome.exc.raw_score_value = str(ResponseScoreValue)
    /\ (AttemptOver /\ scorer_type = "float_scale" /\ HasRequiredKeys
          /\ ~Ambiguous /\ FloatParses(str(ResponseScoreValue))) =>
          outcome.kind = "returned"

C6_Witness ==
    /\ outcome.kind = "returned"
    /\ scorer_type = "float_scale"
    /\ outcome.score.raw_score_value = "nan"

\* str.lower() of the raw values of the model
Lower(raw) == IF raw = "True" THEN "true" ELSE raw
BooleanTokens == {"true", "false"}

\* C7 as stated: a true_false scorer never returns a score whose raw value
\* is not, ignoring case, "true" or "false".
C7_ReturnsOnlyBooleans ==
    (outcome.kind = "returned" /\ scorer_type = "true_false") =>
        Lower(outcome.score.raw_score_value) \in BooleanTokens

\* C7 as amended: a true_false scorer checks nothing about score_value: a
\* response with score_value and rationale and no ambiguous category is
\* returned by the attempt that got it, its raw value the text of
\* score_value, and is not retried.
C7_TrueFalseIsNotChecked ==
    (AttemptOver /\ scorer_type = "true_false" /\ HasRequiredKeys /\ ~Ambiguous) =>
        /\ pc = "done"
        /\ outcome.kind = "returned"
        /\ outcome.at = attempts
        /\ outcome.score.raw_score_value = str(ResponseScoreValue)

C7_Witness ==
    /\ outcome.kind = "returned"
    /\ scorer_type = "true_false"
    /\ outcome.score.raw_score_value = "high"

\* C8: the steps of an attempt follow each other as send, parse, validate,
\* return; a score is returned only by the validate step of the attempt
\* whose response parsed and passed the domain check, it is built from that
\* response, and after it no step (no judge call) follows.
C8_StepsInOrder ==
    [][ /\ pc # "done"
        /\ pc = "idle" => pc' = "send" /\ attempts' = 0
        /\ pc = "send" =>
              /\ attempts' = attempts + 1
              /\ \/ pc' = "parse"
                 \/ pc' = "done" /\ response_json' = NoText
        /\ pc = "parse" => pc' \in {"validate", "send", "done"} /\ attempts' = attempts
        /\ pc = "validate" => pc' \in {"send", "done"} /\ attempts' = attempts
        /\ pc' = "validate" => pc = "parse" /\ HasRequiredKeys /\ ~Ambiguous
        /\ outcome'.kind = "returned" =>
              /\ pc = "validate"
              /\ pc' = "done"
              /\ response_json' = response_json
              /\ outcome'.at = attempts
              /\ outcome'.score.raw_score_value = str(ResponseScoreValue)
              /\ outcome'.score.score_rationale = ResponseRationale
              /\ scorer_type = "float_scale" =>
                    FloatParses(outcome'.score.raw_score_value)
      ]_vars

C8_Witness ==
    /\ pc = "done"
    /\ outcome.kind = "returned"
    /\ outcome.at = 2
    /\ attempts = 2
    /\ outcome.score.score_value_description = PyStr("desc")

(***************************************************************************)
(* Properties of score_prompts_batch_async (specification BatchSpec).      *)
(***************************************************************************)
\* C3: in every state the number of score_async calls started and not yet
\* finished is at most batch_size.
C3_InFlightBounded == Cardinality(InFlight) <= batch_size

C3_Witness ==
    /\ batch_size >= 2
    /\ n_prompts > batch_size
    /\ Cardinality(InFlight) = batch_size

\* the lists score_async returned for positions 1..k, one after the other
RECURSIVE ConcatUpTo(_)
ConcatUpTo(k) == IF k = 0 THEN <<>> ELSE ConcatUpTo(k - 1) \o returned[k]

\* C4: when no score_async call failed, the invocation ends by returning the
\* concatenation in input order of the lists returned for each subject,
\* each subject having been scored exactly once, whatever the order in
\* which the calls finished.
C4_FlattenedInInputOrder ==
    (b_pc = "done" /\ Failed = {}) =>
        /\ \A i \in Positions : status[i] = "ok" /\ started[i] = 1
        /\ b_outcome.kind = "returned"
        /\ b_outcome.scores = ConcatUpTo(n_prompts)

C4_Witness ==
    /\ b_pc = "done"
    /\ b_outcome.kind = "returned"
    /\ Len(b_outcome.scores) >= 3
    /\ \E a, b \in 1..Len(completion) : a < b /\ completion[a] > completion[b]
    /\ \E i, j \in Positions : i < j /\ Len(returned[i]) = 2 /\ Len(returned[j]) = 1

\* C9: a failed score_async call cancels no sibling (when the invocation
\* ends, every call of the failing chunk was started once and has finished),
\* and is not dropped: the invocation raises instead of returning, and the
\* failure raised names exactly the positions whose calls failed.
C9_FailureSurfacedWithPosition ==
    /\ b_outcome.kind = "returned" => Failed = {}
    /\ (b_pc = "done" /\ Failed # {}) =>
          /\ b_outcome.kind = "raised"
          /\ b_outcome.failures = Failed
          /\ b_outcome.first \in Failed
          /\ \A i \in Chunk : started[i] = 1 /\ status[i] \in {"ok", "failed"}
          /\ InFlight = {}

C9_Witness ==
    /\ b_pc = "done"
    /\ b_outcome.kind = "raised"
    /\ Cardinality(Failed) = 1
    /\ \E a, b \in 1..Len(completion) :
          /\ a < b
          /\ completion[a] \in Failed
          /\ completion[b] \in Chunk
          /\ status[completion[b]] = "ok"

(***************************************************************************)
(* Properties of scale_value_float (specification ScaleSpec).              *)
(***************************************************************************)
\* C10: scale_value_float(value, min, max) is exactly 0 when min = max and
\* otherwise the quotient (value - min) / (max - min), for every value, also
\* one outside [min, max]: the result is not clamped.
C10_LinearRescale ==
    s_pc = "done" =>
        /\ s_min = s_max => s_result = Zero
        /\ s_min # s_max =>
              /\ s_result.den > 0
              /\ s_result.num * (s_max - s_min) = (s_value - s_min) * s_result.den

C10_Witness ==
    /\ s_pc = "done"
    /\ s_min # s_max
    /\ s_value > s_max
    /\ s_max > s_min
    /\ s_result.num > s_result.den

\* C11: the category of a returned score has exactly one source: it is the
\* category of the response when the response gives a (non-empty) one, and
\* otherwise the caller's argument, which is then all there is (unset or
\* empty when the caller gave none); a call in which both give one never
\* returns a score: its failure is not retried.
C11_CategoryFromOneSource ==
    /\ AmbiguousCategoryError.prefix \notin retried
    /\ outcome.kind = "returned" =>
          /\ ~Ambiguous
          /\ Truthy(ResponseCategory) =>
                outcome.score.score_category = ResponseCategory
          /\ ~Truthy(ResponseCategory) =>
                outcome.score.score_category = category_arg
          /\ (~Truthy(ResponseCategory) /\ ~Truthy(category_arg)) =>
                ~Truthy(outcome.score.score_category)

C11_Witness ==
    /\ outcome.kind = "returned"
    /\ category_arg = PyNone
    /\ outcome.score.score_category = PyStr("other")

C13_EntryPointsDelegateOnce ==
    /\ e_pc = "idle" => score_calls = <<>>
    /\ e_pc # "idle" =>
          /\ Len(score_calls) = 1
          /\ score_calls[1].task = e_task
          /\ score_calls[1].request_response = request_piece
          /\ request_piece.role = "user"
          /\ request_piece.id = PyNone
          /\ request_piece.original_value = PyStr(e_arg)
          /\ e_entry = "image" =>
                /\ request_piece.converted_value = PyStr(e_arg)
                /\ request_piece.original_value_data_type = PyStr("image_path")
                /\ request_piece.converted_value_data_type = PyStr("image_path")
    /\ e_pc = "done" => e_outcome = e_result /\ e_result.kind # "none"
    /\ e_pc # "done" => e_outcome = NoEntryResult

C13_Witness ==
    /\ e_pc = "done"
    /\ e_entry = "image"
    /\ e_arg = "a.png"
    /\ e_task = PyStr("objective")
    /\ e_outcome.kind = "returned"
    /\ Len(e_outcome.scores) = 2

C15_RationaleNonEmpty ==
    outcome.kind = "returned" =>
        /\ outcome.score.score_rationale.t = "str"
        /\ outcome.score.score_rationale.v # ""

\* C15 as amended: every score returned comes of a response that has the
\* rationale key, and carries the value of that key as it was given, be it
\* null or the empty string; only a response without the key returns none.
C15_RationaleKeyPresent ==
    outcome.kind = "returned" =>
        /\ IsObject
        /\ response_json.rationale # JAbsent
        /\ outcome.score.score_rationale = ResponseRationale
        /\ outcome.score.score_rationale # Missing

C15_Witness ==
    /\ outcome.kind = "returned"
    /\ response_json.rationale = JString("")
    /\ outcome.score.score_rationale = PyStr("")

(***************************************************************************)
(* The identifier of the scorer (Spec).                                    *)
(***************************************************************************)
\* the identity of the class: its name, its module, no sub-identifier
ClassIdentity ==
    [type |-> "SelfAskScorer", module |-> "pyrit.score.self_ask_scorer",
     sub_identifier |-> PyNone]

\* C16: in every state, whatever the instance is and whatever it has done
\* (its scorer_type, the attempts it has made, what it returned or raised),
\* get_identifier gives the class's name and module with no sub-identifier,
\* and every score built or returned carries exactly that.
C16_IdentifierIsStructural ==
    /\ get_identifier = ClassIdentity
    /\ score.scorer_class_identifier = ClassIdentity
    /\ outcome.kind = "returned" =>
          outcome.score.scorer_class_identifier = get_identifier

C16_Witness ==
    /\ outcome.kind = "returned"
    /\ outcome.at = 2
    /\ scorer_type = "true_false"
    /\ retried # {}
    /\ outcome.score.scorer_class_identifier = ClassIdentity

(***************************************************************************)
(* The kinds of failure after a response (Spec).                           *)
(***************************************************************************)
\* C17: whatever send_chat_target_async raises once the judge has answered
\* is an InvalidJsonException or the ambiguous-category error; an answer
\* that is JSON but no object is a recoverable InvalidJsonException.
C17_OnlyTwoFailureKinds ==
    (outcome.kind = "raised" /\ response_json # NoText) =>
        \/ outcome.exc.type = "InvalidJsonException"
        \/ outcome.exc = AmbiguousCategoryError

(***************************************************************************)
(* Order of the checks, and the category across retries (Spec).            *)
(***************************************************************************)
\* C18: an attempt whose response gives a category the caller gave too, and
\* lacks score_value or rationale, ends the invocation there and then with
\* the ambiguous-category error, not with a missing key that is retried;
\* and every attempt is parsed with the caller's category argument, so an
\* invocation whose caller gave none never ends in that error, whatever
\* category an earlier attempt adopted.
C18_AmbiguityBeforeKeysAndPerAttempt ==
    /\ (AttemptOver /\ Ambiguous /\ ~HasRequiredKeys) =>
          /\ pc = "done"
          /\ outcome.kind = "raised"
          /\ outcome.exc = AmbiguousCategoryError
          /\ outcome.at = attempts
    /\ pc = "parse" => category = category_arg
    /\ ~Truthy(category_arg) => outcome.exc # AmbiguousCategoryError

C18_Witness ==
    /\ outcome.kind = "returned"
    /\ outcome.at = 2
    /\ adopted
    /\ category_arg = PyNone
    /\ ResponseCategory = PyStr("other")
    /\ outcome.score.score_category = PyStr("other")

====
